---- MODULE Spec2Model ----
(***************************************************************************)
(* Command Runner (Home Assistant custom integration).                     *)
(*                                                                         *)
(* Three parts of the integration are modelled, each under its own         *)
(* specification over the shared variables:                                *)
(*   SpecSetup  button.py / sensor.py  async_setup_entry                   *)
(*   SpecPress  button.py  CommandRunnerButton.async_press and the         *)
(*              last-execution sensors of sensor.py                        *)
(*   SpecFlow   config_flow.py  validate_input, async_step_user,           *)
(*              async_step_reconfigure                                     *)
(*                                                                         *)
(* Python dicts are TLA+ functions whose DOMAIN is the set of keys that    *)
(* are present; d.get(k) on a missing key is modelled by the DOMAIN test.  *)
(***************************************************************************)
EXTENDS Integers, Sequences, FiniteSets, TLC

VARIABLES
    data,              \* coordinator.data: the polled list of command dicts
    button_entities,   \* entities added by button.py (empty before its setup)
    sensor_entities,   \* entities added by sensor.py (empty before its setup)
    entry_options,     \* entry.options of the config entry
    presses,           \* one record per button press (coroutine position, locals)
    execute_calls,     \* log of coordinator.execute_command(name) calls
    notifications,     \* log of persistent_notification.create service calls
    last_execution,    \* coordinator.last_execution
    completed,         \* history: executions in the order they completed
    refresh_requests,  \* number of coordinator.async_request_refresh() calls
    entries,           \* config entries of the domain, in creation order
    flow_input,        \* step, entry and server response of the last flow step
    flow_result        \* FlowResult returned by the last flow step

setupVars == <<data, button_entities, sensor_entities>>
pressVars == <<entry_options, presses, execute_calls, notifications,
               last_execution, completed, refresh_requests>>
flowVars  == <<entries, flow_input, flow_result>>
vars == <<data, button_entities, sensor_entities, entry_options, presses,
          execute_calls, notifications, last_execution, completed,
          refresh_requests, entries, flow_input, flow_result>>

\* ------------------------------------------------------------------------
\* Bounds
\* ------------------------------------------------------------------------
MaxCommands == 3
MaxPresses == 2
MaxEntries == 2

\* ------------------------------------------------------------------------
\* Python helpers
\* ------------------------------------------------------------------------
EmptyDict == [k \in {} |-> ""]

HasKey(d, k) == k \in DOMAIN d

RECURSIVE Repeat(_, _)
Repeat(s, n) == IF n = 0 THEN "" ELSE s \o Repeat(s, n - 1)

\* ------------------------------------------------------------------------
\* Platform setup (button.py, sensor.py)
\* ------------------------------------------------------------------------
CommandNames == {"a", "b"}
CommandKinds == {"command", "sensor", "script"}

\* a command dict of the server's /commands list; "kind" may be missing
Commands ==
    [name : CommandNames, kind : CommandKinds] \cup [name : CommandNames]

CommandLists == UNION {[1..n -> Commands] : n \in 0..MaxCommands}

CommandRunnerRefreshButton == [cls |-> "CommandRunnerRefreshButton"]

CommandRunnerButton(command) ==
    [cls |-> "CommandRunnerButton", command |-> command]

\* variant: command.get("kind") == "command", the default dropped
ButtonKindMatchesNoDefault(command) ==
    HasKey(command, "kind") /\ command.kind = "command"

\* command.get("kind", "command") == "command"
ButtonKindMatches(command) ==
    (IF HasKey(command, "kind") THEN command.kind ELSE "command") = "command"

\* the loop of button.async_setup_entry over coordinator.data
RECURSIVE ButtonLoop(_, _)
ButtonLoop(entities, commands) ==
    IF commands = <<>> THEN entities
    ELSE ButtonLoop(
            IF ButtonKindMatches(Head(commands))
            THEN Append(entities, CommandRunnerButton(Head(commands)))
            ELSE entities,
            Tail(commands))

ButtonSetupEntities(commands) ==
    ButtonLoop(<<CommandRunnerRefreshButton>>, commands)

StatusSensorClasses ==
    << "CommandRunnerStatusSensor",
       "CommandRunnerVersionSensor",
       "CommandRunnerPortSensor",
       "CommandRunnerUptimeSensor",
       "CommandRunnerTotalRequestsSensor",
       "CommandRunnerProcessingSensor",
       "CommandRunnerAPIKeysSensor",
       "CommandRunnerLastRequestSensor",
       "CommandRunnerLastCommandNameSensor",
       "CommandRunnerLastCommandStatusSensor",
       "CommandRunnerLastCommandOutputSensor" >>

CommandRunnerCommandSensor(command) ==
    [cls |-> "CommandRunnerCommandSensor", command |-> command]

\* variant: command.get("kind", "sensor") == "sensor"
SensorKindMatchesDefaultSensor(command) ==
    (IF HasKey(command, "kind") THEN command.kind ELSE "sensor") = "sensor"

\* command.get("kind") == "sensor"
SensorKindMatches(command) ==
    HasKey(command, "kind") /\ command.kind = "sensor"

\* the loop of sensor.async_setup_entry over coordinator.data
RECURSIVE SensorLoop(_, _)
SensorLoop(entities, commands) ==
    IF commands = <<>> THEN entities
    ELSE SensorLoop(
            IF SensorKindMatches(Head(commands))
            THEN Append(entities, CommandRunnerCommandSensor(Head(commands)))
            ELSE entities,
            Tail(commands))

SensorSetupEntities(commands) ==
    SensorLoop([i \in 1..Len(StatusSensorClasses) |->
                    [cls |-> StatusSensorClasses[i]]],
               commands)

ButtonSetupEntry ==
    /\ button_entities = <<>>
    /\ button_entities' = button_entities \o ButtonSetupEntities(data)
    /\ UNCHANGED <<data, sensor_entities>>
    /\ UNCHANGED pressVars
    /\ UNCHANGED flowVars

SensorSetupEntry ==
    /\ sensor_entities = <<>>
    /\ sensor_entities' = sensor_entities \o SensorSetupEntities(data)
    /\ UNCHANGED <<data, button_entities>>
    /\ UNCHANGED pressVars
    /\ UNCHANGED flowVars

PressIdle ==
    /\ entry_options = EmptyDict
    /\ presses = <<>>
    /\ execute_calls = <<>>
    /\ notifications = <<>>
    /\ last_execution = EmptyDict
    /\ completed = <<>>
    /\ refresh_requests = 0

FlowIdle ==
    /\ entries = <<>>
    /\ flow_input = EmptyDict
    /\ flow_result = EmptyDict

InitSetup ==
    /\ data \in CommandLists
    /\ button_entities = <<>>
    /\ sensor_entities = <<>>
    /\ PressIdle
    /\ FlowIdle

NextSetup == ButtonSetupEntry \/ SensorSetupEntry

SpecSetup == InitSetup /\ [][NextSetup]_vars

\* ------------------------------------------------------------------------
\* Command button press (button.py) and last-execution sensors (sensor.py)
\* ------------------------------------------------------------------------
DOMAIN_NAME == "command_runner"
CONF_SHOW_NOTIFICATIONS == "show_notifications"
EntryId == "entry1"

\* state limit of a sensor value (sensor.py: output[:255])
StateLimit == 255

LongText == Repeat("x", StateLimit + 1)

\* the command list the pressed buttons were set up from
PressCommandLists ==
    { << [name |-> "a", kind |-> "command"],
         [name |-> ""],
         [name |-> "s", kind |-> "sensor"] >> }

OptionValues ==
    { EmptyDict,
      [show_notifications |-> TRUE],
      [show_notifications |-> FALSE] }

\* result dicts execute_command may return: every key may be missing
Results ==
    { [success |-> TRUE, output |-> "out"],
      [success |-> TRUE, output |-> ""],
      [success |-> TRUE, output |-> LongText],
      [success |-> TRUE],
      [success |-> FALSE, error |-> "err"],
      [success |-> FALSE, error |-> LongText],
      [success |-> FALSE, output |-> "out"],
      [error |-> "err"] }

\* result.get("success") taken as a condition
ResultSuccess(result) == HasKey(result, "success") /\ result.success

\* variant: entry.options.get(CONF_SHOW_NOTIFICATIONS, False)
ShowNotificationsDefaultOff(options) ==
    IF HasKey(options, CONF_SHOW_NOTIFICATIONS)
    THEN options[CONF_SHOW_NOTIFICATIONS]
    ELSE FALSE

\* entry.options.get(CONF_SHOW_NOTIFICATIONS, True)
ShowNotifications(options) ==
    IF HasKey(options, CONF_SHOW_NOTIFICATIONS)
    THEN options[CONF_SHOW_NOTIFICATIONS]
    ELSE TRUE

\* CommandRunnerButton._attr_unique_id
ButtonUniqueId(command) == EntryId \o "_" \o command.name

\* self._command["name"]
PressCommandName(button) == button.command.name

\* variant: the call is issued a second time
IssueExecuteTwice(calls, p, command_name) ==
    Append(Append(calls, [press |-> p, command_name |-> command_name]),
           [press |-> p, command_name |-> command_name])

\* the call coordinator.execute_command(command_name) of one press
IssueExecute(calls, p, command_name) ==
    Append(calls, [press |-> p, command_name |-> command_name])

\* the persistent_notification.create calls of one press, given the result
\* (the message body is left out; titles are kept without their emoji)
PressNotifications(p, button, result, options) ==
    LET command_name == PressCommandName(button)
        show_notifications == ShowNotifications(options)
        nid == DOMAIN_NAME \o "_" \o ButtonUniqueId(button.command)
    IN  IF ResultSuccess(result)
        THEN IF show_notifications
             THEN << [press |-> p,
                      title |-> "Command Success: " \o command_name,
                      notification_id |-> nid] >>
             ELSE <<>>
        ELSE IF show_notifications
             THEN << [press |-> p,
                      title |-> "Command Failed: " \o command_name,
                      notification_id |-> nid] >>
             ELSE <<>>

\* coordinator.execute_command storing the last-execution result
StoreLastExecution(command_name, result) ==
    [command_name |-> command_name,
     status |-> IF ResultSuccess(result) THEN "Success" ELSE "Failed"]
    @@ (IF HasKey(result, "output") THEN [output |-> result.output]
        ELSE EmptyDict)
    @@ (IF HasKey(result, "error") THEN [error |-> result.error]
        ELSE EmptyDict)

\* text[:255] if len(text) > 255 else text
Truncate(text) ==
    IF Len(text) > StateLimit THEN SubSeq(text, 1, StateLimit) ELSE text

\* CommandRunnerLastCommandNameSensor.native_value
LastCommandNameValue(last_exec) ==
    IF HasKey(last_exec, "command_name") /\ last_exec.command_name # ""
    THEN last_exec.command_name
    ELSE "None"

\* CommandRunnerLastCommandStatusSensor.native_value
LastCommandStatusValue(last_exec) ==
    IF HasKey(last_exec, "status") /\ last_exec.status # ""
    THEN last_exec.status
    ELSE "Unknown"

\* variant: the error branch reads the output
LastCommandOutputValueErrorFromOutput(last_exec) ==
    IF HasKey(last_exec, "status") /\ last_exec.status = "Success"
    THEN IF HasKey(last_exec, "output") /\ last_exec.output # ""
         THEN Truncate(last_exec.output)
         ELSE "No output"
    ELSE IF HasKey(last_exec, "status") /\ last_exec.status = "Failed"
    THEN IF HasKey(last_exec, "output") /\ last_exec.output # ""
         THEN Truncate(last_exec.output)
         ELSE "Unknown error"
    ELSE "None"

\* CommandRunnerLastCommandOutputSensor.native_value
LastCommandOutputValue(last_exec) ==
    IF HasKey(last_exec, "status") /\ last_exec.status = "Success"
    THEN IF HasKey(last_exec, "output") /\ last_exec.output # ""
         THEN Truncate(last_exec.output)
         ELSE "No output"
    ELSE IF HasKey(last_exec, "status") /\ last_exec.status = "Failed"
    THEN IF HasKey(last_exec, "error") /\ last_exec.error # ""
         THEN Truncate(last_exec.error)
         ELSE "Unknown error"
    ELSE "None"

CommandButtons ==
    {b \in DOMAIN button_entities :
        button_entities[b].cls = "CommandRunnerButton"}

\* async_press up to its first await: the execute call is issued
PressStart(b) ==
    /\ Len(presses) < MaxPresses
    /\ LET p == Len(presses) + 1
           command_name == PressCommandName(button_entities[b])
       IN  /\ execute_calls' = IssueExecute(execute_calls, p, command_name)
           /\ presses' = Append(presses, [button |-> b, pc |-> "execute"])
    /\ UNCHANGED <<entry_options, notifications, last_execution, completed,
                   refresh_requests>>
    /\ UNCHANGED setupVars
    /\ UNCHANGED flowVars

\* execute_command returns: the coordinator has stored the result, the
\* handler reads the option and raises the notification
ExecuteReturn(p, result) ==
    /\ presses[p].pc = "execute"
    /\ LET call == CHOOSE c \in DOMAIN execute_calls :
                       execute_calls[c].press = p
           button == button_entities[presses[p].button]
       IN  /\ last_execution' =
                  StoreLastExecution(execute_calls[call].command_name, result)
           /\ notifications' = notifications \o
                  PressNotifications(p, button, result, entry_options)
    /\ completed' = Append(completed, p)
    /\ presses' = [presses EXCEPT ![p] =
                      [button |-> presses[p].button, pc |-> "refresh",
                       result |-> result]]
    /\ UNCHANGED <<entry_options, execute_calls, refresh_requests>>
    /\ UNCHANGED setupVars
    /\ UNCHANGED flowVars

\* the trailing coordinator.async_request_refresh()
RequestRefresh(p) ==
    /\ presses[p].pc = "refresh"
    /\ refresh_requests' = refresh_requests + 1
    /\ presses' = [presses EXCEPT ![p].pc = "done"]
    /\ UNCHANGED <<entry_options, execute_calls, notifications,
                   last_execution, completed>>
    /\ UNCHANGED setupVars
    /\ UNCHANGED flowVars

InitPress ==
    /\ data \in PressCommandLists
    /\ button_entities = ButtonSetupEntities(data)
    /\ sensor_entities = SensorSetupEntities(data)
    /\ entry_options \in OptionValues
    /\ presses = <<>>
    /\ execute_calls = <<>>
    /\ notifications = <<>>
    /\ last_execution = EmptyDict
    /\ completed = <<>>
    /\ refresh_requests = 0
    /\ FlowIdle

NextPress ==
    \/ \E b \in CommandButtons : PressStart(b)
    \/ \E p \in DOMAIN presses : \E result \in Results :
           ExecuteReturn(p, result)
    \/ \E p \in DOMAIN presses : RequestRefresh(p)

SpecPress == InitPress /\ [][NextPress]_vars

\* ------------------------------------------------------------------------
\* Config flow (config_flow.py)
\* ------------------------------------------------------------------------
Hosts == {"h1", "h2"}
Ports == {8080, 8081}
ApiKeys == {"k"}

UserInputs == [host : Hosts, port : Ports, api_key : ApiKeys]

\* what the GET http://host:port/commands of validate_input meets
Responses ==
    { [kind |-> "client_error"],
      [kind |-> "timeout"],
      [kind |-> "http", status |-> 401],
      [kind |-> "http", status |-> 403],
      [kind |-> "http", status |-> 500],
      [kind |-> "http", status |-> 200, body |-> [success |-> TRUE]],
      [kind |-> "http", status |-> 200, body |-> [success |-> FALSE]],
      [kind |-> "http", status |-> 200, body |-> EmptyDict] }

Digit(d) ==
    CASE d = 0 -> "0" [] d = 1 -> "1" [] d = 2 -> "2" [] d = 3 -> "3"
      [] d = 4 -> "4" [] d = 5 -> "5" [] d = 6 -> "6" [] d = 7 -> "7"
      [] d = 8 -> "8" [] d = 9 -> "9"

\* str(n) of a non-negative int, as an f-string formats it
RECURSIVE IntToStr(_)
IntToStr(n) ==
    IF n < 10 THEN Digit(n) ELSE IntToStr(n \div 10) \o Digit(n % 10)

\* f"{user_input[CONF_HOST]}:{user_input[CONF_PORT]}"
FormatUniqueId(user_input) ==
    user_input.host \o ":" \o IntToStr(user_input.port)

\* f"Command Runner ({host})"
FormatTitle(host) == "Command Runner (" \o host \o ")"

\* variant: the success flag of the JSON body is not looked at
TryBlockRaisesNoSuccessCheck(response) ==
    IF response.kind = "client_error" THEN "ClientError"
    ELSE IF response.kind = "timeout" THEN "TimeoutError"
    ELSE IF response.status = 401 THEN "InvalidAuth"
    ELSE IF response.status = 403 THEN "NoAPIKeys"
    ELSE IF response.status >= 400 THEN "ClientResponseError"
    ELSE "none"

\* the exception raised inside the try block of validate_input, or "none"
TryBlockRaises(response) ==
    IF response.kind = "client_error" THEN "ClientError"
    ELSE IF response.kind = "timeout" THEN "TimeoutError"
    ELSE IF response.status = 401 THEN "InvalidAuth"
    ELSE IF response.status = 403 THEN "NoAPIKeys"
    ELSE IF response.status >= 400 THEN "ClientResponseError"
    ELSE IF ~(HasKey(response.body, "success") /\ response.body.success)
    THEN "CannotConnect"
    ELSE "none"

\* isinstance(exc, aiohttp.ClientError)
IsClientError(exc) == exc \in {"ClientError", "ClientResponseError"}

\* every class raised in the try block derives from Exception
IsException(exc) ==
    exc \in {"ClientError", "ClientResponseError", "TimeoutError",
             "InvalidAuth", "NoAPIKeys", "CannotConnect"}

\* validate_input: the try block and its two except clauses
validate_input(user_input, response) ==
    LET exc == TryBlockRaises(response)
    IN  IF exc = "none"
        THEN [raised |-> "none", title |-> FormatTitle(user_input.host)]
        ELSE IF IsClientError(exc) THEN [raised |-> "CannotConnect"]
        ELSE IF IsException(exc) THEN [raised |-> "CannotConnect"]
        ELSE [raised |-> exc]

\* the except clauses of async_step_user / async_step_reconfigure
FormErrors(raised) ==
    IF raised = "InvalidAuth" THEN [base |-> "invalid_auth"]
    ELSE IF raised = "NoAPIKeys" THEN [base |-> "no_api_keys"]
    ELSE IF raised = "CannotConnect" THEN [base |-> "cannot_connect"]
    ELSE [base |-> "unknown"]

\* _abort_if_unique_id_configured: an entry of the domain has this unique ID
UniqueIdConfigured(ents, unique_id) ==
    \E i \in DOMAIN ents : ents[i].unique_id = unique_id

\* async_create_entry: the new entry takes the flow's unique ID
CreateEntry(ents, unique_id, title, user_input) ==
    Append(ents, [unique_id |-> unique_id, title |-> title,
                  data |-> user_input])

\* async_update_reload_and_abort(entry, data_updates=..., title=...):
\* no unique_id argument is passed, the entry keeps its unique ID
UpdateEntry(ents, e, user_input, title) ==
    [ents EXCEPT ![e] = [unique_id |-> ents[e].unique_id,
                         title |-> title,
                         data |-> user_input @@ ents[e].data]]

\* async_step_user(user_input): the entries and the FlowResult it leaves
async_step_user(ents, user_input, response) ==
    LET info == validate_input(user_input, response)
        unique_id == FormatUniqueId(user_input)
    IN  IF info.raised # "none"
        THEN [entries |-> ents,
              result |-> [type |-> "form", step_id |-> "user",
                          errors |-> FormErrors(info.raised)]]
        ELSE IF UniqueIdConfigured(ents, unique_id)
        THEN [entries |-> ents,
              result |-> [type |-> "abort", reason |-> "already_configured"]]
        ELSE [entries |-> CreateEntry(ents, unique_id, info.title, user_input),
              result |-> [type |-> "create_entry", title |-> info.title,
                          data |-> user_input]]

\* async_step_reconfigure(user_input) for the entry at index e
async_step_reconfigure(ents, e, user_input, response) ==
    LET info == validate_input(user_input, response)
        new_unique_id == FormatUniqueId(user_input)
    IN  IF info.raised # "none"
        THEN [entries |-> ents,
              result |-> [type |-> "form", step_id |-> "reconfigure",
                          errors |-> FormErrors(info.raised)]]
        ELSE IF /\ new_unique_id # ents[e].unique_id
                /\ UniqueIdConfigured(ents, new_unique_id)
        THEN [entries |-> ents,
              result |-> [type |-> "abort", reason |-> "already_configured"]]
        ELSE [entries |-> UpdateEntry(ents, e, user_input,
                                      FormatTitle(user_input.host)),
              result |-> [type |-> "abort",
                          reason |-> "reconfigure_successful"]]

\* async_step_user(None): the empty form
StepUserForm ==
    /\ flow_input' = [step |-> "user"]
    /\ flow_result' = [type |-> "form", step_id |-> "user",
                       errors |-> EmptyDict]
    /\ UNCHANGED entries
    /\ UNCHANGED setupVars
    /\ UNCHANGED pressVars

StepUser(user_input, response) ==
    LET out == async_step_user(entries, user_input, response)
    IN  /\ Len(out.entries) <= MaxEntries
        /\ entries' = out.entries
        /\ flow_result' = out.result
        /\ flow_input' = [step |-> "user", response |-> response]
        /\ UNCHANGED setupVars
        /\ UNCHANGED pressVars

\* async_step_reconfigure(None): the form pre-filled from the entry
StepReconfigureForm(e) ==
    /\ flow_input' = [step |-> "reconfigure", entry |-> e]
    /\ flow_result' = [type |-> "form", step_id |-> "reconfigure",
                       errors |-> EmptyDict]
    /\ UNCHANGED entries
    /\ UNCHANGED setupVars
    /\ UNCHANGED pressVars

StepReconfigure(e, user_input, response) ==
    LET out == async_step_reconfigure(entries, e, user_input, response)
    IN  /\ entries' = out.entries
        /\ flow_result' = out.result
        /\ flow_input' = [step |-> "reconfigure", entry |-> e,
                          response |-> response]
        /\ UNCHANGED setupVars
        /\ UNCHANGED pressVars

InitFlow ==
    /\ data = <<>>
    /\ button_entities = <<>>
    /\ sensor_entities = <<>>
    /\ PressIdle
    /\ FlowIdle

NextFlow ==
    \/ StepUserForm
    \/ \E user_input \in UserInputs : \E response \in Responses :
           StepUser(user_input, response)
    \/ \E e \in DOMAIN entries : StepReconfigureForm(e)
    \/ \E e \in DOMAIN entries : \E user_input \in UserInputs :
           \E response \in Responses :
               StepReconfigure(e, user_input, response)

SpecFlow == InitFlow /\ [][NextFlow]_vars

\* ------------------------------------------------------------------------
\* Properties
\* ------------------------------------------------------------------------
Count(seq, x) == Cardinality({i \in DOMAIN seq : seq[i] = x})

ButtonOf(c) == [cls |-> "CommandRunnerButton", command |-> c]

SensorOf(c) == [cls |-> "CommandRunnerCommandSensor", command |-> c]

ListedCommands == {data[i] : i \in DOMAIN data}

ButtonsSetUp == button_entities # <<>>

SensorsSetUp == sensor_entities # <<>>

\* C1 (as stated): once the button platform is set up, its entities are
\* exactly one refresh button plus exactly one command button for every
\* command in the coordinator's list, whatever the command's kind.
C1_OneButtonPerCommand ==
    ButtonsSetUp =>
        /\ Count(button_entities, [cls |-> "CommandRunnerRefreshButton"]) = 1
        /\ Len(button_entities) = 1 + Len(data)
        /\ \A c \in ListedCommands :
               Count(button_entities, ButtonOf(c)) = Count(data, c)

\* C1 (amended): once the button platform is set up, its entities are
\* exactly one refresh button plus exactly one command button for every
\* command in the list whose kind is "command" or is not given, and no
\* button for a command of any other kind.
C1_OneButtonPerCommandKindCommand ==
    ButtonsSetUp =>
        /\ Count(button_entities, [cls |-> "CommandRunnerRefreshButton"]) = 1
        /\ \A i \in DOMAIN button_entities :
               \/ button_entities[i] = [cls |-> "CommandRunnerRefreshButton"]
               \/ \E c \in ListedCommands : button_entities[i] = ButtonOf(c)
        /\ \A c \in ListedCommands :
               Count(button_entities, ButtonOf(c)) =
                   IF "kind" \notin DOMAIN c \/ c.kind = "command"
                   THEN Count(data, c)
                   ELSE 0

C1_Witness ==
    /\ ButtonsSetUp
    /\ Len(data) = 3
    /\ \E i, j, k \in DOMAIN data :
           /\ "kind" \notin DOMAIN data[i]
           /\ "kind" \in DOMAIN data[j] /\ data[j].kind = "command"
           /\ "kind" \in DOMAIN data[k] /\ data[k].kind = "sensor"
    /\ Len(button_entities) = 3

\* C2: once the sensor platform is set up, its entities are the 11 fixed
\* status and last-execution sensors, one of each, for every command list
\* (the empty one included), plus exactly one command sensor for each
\* command whose kind is "sensor" and none for any other command.
C2_FixedSensorsPlusOnePerSensorCommand ==
    SensorsSetUp =>
        /\ Cardinality({StatusSensorClasses[i] :
                            i \in DOMAIN StatusSensorClasses}) = 11
        /\ \A i \in DOMAIN StatusSensorClasses :
               Count(sensor_entities, [cls |-> StatusSensorClasses[i]]) = 1
        /\ \A c \in ListedCommands :
               Count(sensor_entities, SensorOf(c)) =
                   IF "kind" \in DOMAIN c /\ c.kind = "sensor"
                   THEN Count(data, c)
                   ELSE 0
        /\ Len(sensor_entities) =
               11 + Cardinality({i \in DOMAIN data :
                                    "kind" \in DOMAIN data[i]
                                    /\ data[i].kind = "sensor"})

C2_Witness ==
    /\ SensorsSetUp
    /\ Len(data) = 3
    /\ \E i, j, k \in DOMAIN data :
           /\ "kind" \notin DOMAIN data[i]
           /\ "kind" \in DOMAIN data[j] /\ data[j].kind = "command"
           /\ "kind" \in DOMAIN data[k] /\ data[k].kind = "sensor"
    /\ Len(sensor_entities) = 12

CallsOf(p) == {c \in DOMAIN execute_calls : execute_calls[c].press = p}

NotificationsOf(p) ==
    {n \in DOMAIN notifications : notifications[n].press = p}

PressedName(p) == button_entities[presses[p].button].command.name

Returned(p) == presses[p].pc \in {"refresh", "done"}

Succeeded(p) ==
    "success" \in DOMAIN presses[p].result /\ presses[p].result.success = TRUE

\* C3: every press of a command button has issued exactly one execute call
\* to the coordinator, for that button's own command name, and this stays so
\* after the result has come back, be it a success or a failure.
C3_OneExecuteCallPerPress ==
    \A p \in DOMAIN presses :
        /\ Cardinality(CallsOf(p)) = 1
        /\ \A c \in CallsOf(p) : execute_calls[c].command_name = PressedName(p)

C3_Witness ==
    \E p, q \in DOMAIN presses :
        /\ presses[p].pc = "done" /\ ~Succeeded(p)
        /\ presses[q].pc = "done" /\ Succeeded(q)
        /\ PressedName(p) # PressedName(q)
        /\ Len(execute_calls) = 2

\* C4: a command button press whose execute call has returned has raised
\* exactly one notification when the option show_notifications is true or
\* unset (a success notification when the result's success flag is truthy, a
\* failure notification otherwise) and none when the option is false; a press
\* still waiting for its result has raised none.
C4_NotificationIffOptionOn ==
    \A p \in DOMAIN presses :
        IF ~Returned(p) THEN NotificationsOf(p) = {}
        ELSE IF "show_notifications" \in DOMAIN entry_options
                /\ entry_options.show_notifications = FALSE
        THEN NotificationsOf(p) = {}
        ELSE /\ Cardinality(NotificationsOf(p)) = 1
             /\ \A n \in NotificationsOf(p) :
                    notifications[n].title =
                        IF Succeeded(p)
                        THEN "Command Success: " \o PressedName(p)
                        ELSE "Command Failed: " \o PressedName(p)

C4_Witness ==
    /\ entry_options = EmptyDict
    /\ \E p, q \in DOMAIN presses :
           /\ Returned(p) /\ ~Succeeded(p)
           /\ Returned(q) /\ Succeeded(q)
    /\ Len(notifications) = 2

LastCompleted == completed[Len(completed)]

NameShown == LastCommandNameValue(last_execution)

StatusShown == LastCommandStatusValue(last_execution)

OutputShown == LastCommandOutputValue(last_execution)

FieldOf(result, key) == IF key \in DOMAIN result THEN result[key] ELSE ""

FirstChars(text, n) == SubSeq(text, 1, IF Len(text) < n THEN Len(text) ELSE n)

Submitted(input) == "response" \in DOMAIN input

Status(response, code) == response.kind = "http" /\ response.status = code

ResponseValid(response) ==
    /\ Status(response, 200)
    /\ "success" \in DOMAIN response.body
    /\ response.body.success = TRUE

ShowsError(result, code) ==
    /\ result.type = "form"
    /\ result.errors = [base |-> code]

\* C6: after a user or reconfigure step that submitted input, an HTTP 401
\* response has shown the form with error "invalid_auth", an HTTP 403
\* response with error "no_api_keys", and a connection failure or a response
\* whose success flag is false with error "cannot_connect".
C6_DistinctFormErrors ==
    Submitted(flow_input) =>
        LET response == flow_input.response
        IN  /\ Status(response, 401) => ShowsError(flow_result, "invalid_auth")
            /\ Status(response, 403) => ShowsError(flow_result, "no_api_keys")
            /\ response.kind = "client_error" =>
                   ShowsError(flow_result, "cannot_connect")
            /\ (Status(response, 200) /\ ~ResponseValid(response)) =>
                   ShowsError(flow_result, "cannot_connect")

UserStepTaken == flow_input'.step = "user" /\ Submitted(flow_input')

\* C7: a user step changes the entries only when validation of the submitted
\* input succeeded, and then only by adding one entry; on every validation
\* failure it leaves the entries as they were and shows the user form again
\* with exactly one error code.
C7_UserStepCreatesOnlyWhenValid ==
    [][UserStepTaken =>
          IF ResponseValid(flow_input'.response)
          THEN \/ entries' = entries
               \/ /\ Len(entries') = Len(entries) + 1
                  /\ SubSeq(entries', 1, Len(entries)) = entries
                  /\ flow_result'.type = "create_entry"
          ELSE /\ entries' = entries
               /\ flow_result'.type = "form"
               /\ flow_result'.step_id = "user"
               /\ Cardinality(DOMAIN flow_result'.errors) = 1
               /\ flow_result'.errors.base \in
                      {"invalid_auth", "no_api_keys", "cannot_connect",
                       "unknown"}]_vars

C7_Witness ==
    /\ Len(entries) = 1
    /\ flow_input = [step |-> "user",
                     response |-> [kind |-> "http", status |-> 200,
                                   body |-> [success |-> FALSE]]]
    /\ flow_result.type = "form"
    /\ flow_result.step_id = "user"

\* C8: no two config entries are configured for the same host:port pair.
C8_NoTwoEntriesSameHostPort ==
    \A i, j \in DOMAIN entries :
        i # j => \/ entries[i].data.host # entries[j].data.host
                 \/ entries[i].data.port # entries[j].data.port

\* C9: after a successful reconfigure, the reconfigured entry's unique ID
\* equals "<host>:<port>" of its new data.
C9_ReconfigureUpdatesUniqueId ==
    (/\ Submitted(flow_input)
     /\ flow_input.step = "reconfigure"
     /\ flow_result = [type |-> "abort", reason |-> "reconfigure_successful"])
    => LET entry == entries[flow_input.entry]
       IN  entry.unique_id = FormatUniqueId(entry.data)

====
